---------------------------- MODULE Spec2Model ----------------------------
(***************************************************************************)
(* A model of the CHIP-8 interpreter of src/CHIP-8.cpp: the global machine *)
(* state, CPUReset, LoadCH8ROM, GetNextOpcode, every opcode handler,       *)
(* DecodeOpcodeCycle, the SDL event loop, DrawPixels, and the main loop    *)
(* that strings them together.                                             *)
(*                                                                         *)
(* Bytes and words are naturals kept to their width with % 256 / % 65536.  *)
(* m_GameMemory is a zero-filled array; it is represented by the function  *)
(* from its non-zero addresses to their bytes (an absent address reads 0). *)
(* m_ScreenData is represented by the set of its lit pixels <<x, y>>.      *)
(***************************************************************************)
EXTENDS Integers, Sequences, FiniteSets, TLC

VARIABLES
    m_GameMemory,   \* BYTE m_GameMemory[0xFFF] (non-zero bytes only)
    m_Registers,    \* BYTE m_Registers[16]
    m_Keyboard,     \* BYTE m_Keyboard[16]
    m_AddressI,     \* WORD m_AddressI
    m_PC,           \* WORD m_PC
    m_Stack,        \* std::vector<WORD> m_Stack
    delayTimer,     \* uint8_t delayTimer
    soundTimer,     \* uint8_t soundTimer
    m_ScreenData,   \* BYTE m_ScreenData[64][32] (set of lit pixels)
    undef,          \* kinds of undefined behaviour executed so far
    rom,            \* the bytes of the ROM file main() was pointed at
    opcode,         \* main(): WORD opcode
    isLoaded,       \* main(): bool isLoaded
    exit,           \* main(): bool exit
    phase,          \* main(): the statement of the loop body that runs next
    cycles,         \* number of loop iterations started (bounds the run)
    awaitingKey     \* history: FX0A ran with no key down, none pressed since

vars == <<m_GameMemory, m_Registers, m_Keyboard, m_AddressI, m_PC, m_Stack,
          delayTimer, soundTimer, m_ScreenData, undef, rom, opcode, isLoaded,
          exit, phase, cycles, awaitingKey>>

-----------------------------------------------------------------------------
(* Bounds of the exploration.                                              *)

\* Loop iterations explored per run.
MaxCycles == 20
\* SDL events handled by one pass of the event loop.
MaxEvents == 1

-----------------------------------------------------------------------------
(* Program constants.                                                      *)

MEMORY_SIZE == 4095
PROGRAM_START == 512
SCREEN_WIDTH == 64
SCREEN_HEIGHT == 32
numOfSprites == 16
numOfPixels == 5

m_FontData ==
    << <<240, 144, 144, 144, 240>>,   \* 0
       << 32,  96,  32,  32, 112>>,   \* 1
       <<240,  16, 240, 128, 240>>,   \* 2
       <<240,  16, 240,  16, 240>>,   \* 3
       <<144, 144, 240,  16,  16>>,   \* 4
       <<240, 128, 240,  16, 240>>,   \* 5
       <<240, 128, 240, 144, 240>>,   \* 6
       <<240,  16,  32,  64,  64>>,   \* 7
       <<240, 144, 240, 144, 240>>,   \* 8
       <<240, 144, 240,  16, 240>>,   \* 9
       <<240, 144, 240, 144, 144>>,   \* A
       <<224, 144, 224, 144, 224>>,   \* B
       <<240, 128, 128, 128, 240>>,   \* C
       <<224, 144, 144, 144, 224>>,   \* D
       <<240, 128, 240, 128, 240>>,   \* E
       <<240, 128, 240, 128, 128>> >> \* F

-----------------------------------------------------------------------------
(* Fixed-width arithmetic.                                                 *)

Byte(n) == n % 256
Word(n) == n % 65536

Bit(v, i) == (v \div (2 ^ i)) % 2

\* a & b, a | b and a ^ b on words, bit by bit from bit i up.
RECURSIVE AndFrom(_, _, _)
AndFrom(a, b, i) ==
    IF i > 15 THEN 0
    ELSE (2 ^ i) * (Bit(a, i) * Bit(b, i)) + AndFrom(a, b, i + 1)

RECURSIVE OrFrom(_, _, _)
OrFrom(a, b, i) ==
    IF i > 15 THEN 0
    ELSE (2 ^ i) * (IF Bit(a, i) + Bit(b, i) > 0 THEN 1 ELSE 0) + OrFrom(a, b, i + 1)

RECURSIVE XorFrom(_, _, _)
XorFrom(a, b, i) ==
    IF i > 15 THEN 0
    ELSE (2 ^ i) * ((Bit(a, i) + Bit(b, i)) % 2) + XorFrom(a, b, i + 1)

BitAnd(a, b) == AndFrom(a, b, 0)
BitOr(a, b) == OrFrom(a, b, 0)
BitXor(a, b) == XorFrom(a, b, 0)

-----------------------------------------------------------------------------
(* Operand fields of an opcode word.                                       *)

GetRegisterX(op) == BitAnd(op, \h0F00) \div 256
GetRegisterY(op) == BitAnd(op, \h00F0) \div 16
LowNibble(op) == BitAnd(op, \h000F)
LowByte(op) == BitAnd(op, \h00FF)
Low12(op) == BitAnd(op, \h0FFF)
Family(op) == BitAnd(op, \hF000)

\* The word with nibbles h, x, y, n (for writing programs).
Op(h, x, y, n) == h * 4096 + x * 256 + y * 16 + n

-----------------------------------------------------------------------------
(* The memory array, kept as the function of its non-zero bytes.           *)

InMemory(a) == a >= 0 /\ a < MEMORY_SIZE

MemRead(mem, a) == IF a \in DOMAIN mem THEN mem[a] ELSE 0

MemWrite(mem, a, v) ==
    IF v = 0
    THEN [x \in (DOMAIN mem) \ {a} |-> mem[x]]
    ELSE [x \in (DOMAIN mem) \cup {a} |-> IF x = a THEN v ELSE mem[x]]


-----------------------------------------------------------------------------
(* Values an undefined read may deliver, and values rand() may return.     *)

GarbageBytes == {0, 1, 255}
GarbageWords == {0, 2748}
RandVals == {0, 165, 255}

\* The machine state the handlers work on, as one record.
Machine ==
    [mem |-> m_GameMemory, V |-> m_Registers, K |-> m_Keyboard,
     I |-> m_AddressI, PC |-> m_PC, stack |-> m_Stack, DT |-> delayTimer,
     ST |-> soundTimer, screen |-> m_ScreenData, undef |-> undef,
     crashed |-> FALSE]

\* The process dies (a trap on an invalid access).
Crash(s) == [s EXCEPT !.crashed = TRUE]

\* Execution goes on after undefined behaviour of kind k.
Flag(s, k) == [s EXCEPT !.undef = @ \cup {k}]

-----------------------------------------------------------------------------
(* Opcode handlers.  Each maps a machine state and an opcode word to the   *)
(* set of machine states the handler can leave behind.                     *)

Opcode00E0(s, op) == {[s EXCEPT !.screen = {}]}

\* back() and pop_back() on an empty vector are undefined: the process
\* traps, or back() delivers whatever lies before the buffer.
Opcode00EE(s, op) ==
    IF Len(s.stack) > 0
    THEN {[s EXCEPT !.PC = s.stack[Len(s.stack)],
                    !.stack = SubSeq(s.stack, 1, Len(s.stack) - 1)]}
    ELSE {Crash(Flag(s, "stack_underflow"))}
         \cup {[Flag(s, "stack_underflow") EXCEPT !.PC = g] : g \in GarbageWords}

Opcode1NNN(s, op) == {[s EXCEPT !.PC = Low12(op)]}

\* A call that pushes its target instead of the return address.
Opcode2NNNPushesTarget(s, op) ==
    {[s EXCEPT !.stack = Append(s.stack, Low12(op)), !.PC = Low12(op)]}

Opcode2NNN(s, op) ==
    {[s EXCEPT !.stack = Append(s.stack, s.PC), !.PC = Low12(op)]}

Opcode3XNN(s, op) ==
    LET regx == GetRegisterX(op)
        nn == LowByte(op)
    IN  {IF s.V[regx] = nn THEN [s EXCEPT !.PC = Word(s.PC + 2)] ELSE s}

Opcode4XNN(s, op) ==
    LET regx == GetRegisterX(op)
        nn == LowByte(op)
    IN  {IF s.V[regx] # nn THEN [s EXCEPT !.PC = Word(s.PC + 2)] ELSE s}

Opcode5XY0(s, op) ==
    {IF s.V[GetRegisterX(op)] = s.V[GetRegisterY(op)]
     THEN [s EXCEPT !.PC = Word(s.PC + 2)] ELSE s}

Opcode6XNN(s, op) ==
    LET regx == GetRegisterX(op)
        nn == LowByte(op)
    IN  {[s EXCEPT !.V[regx] = nn]}

Opcode7XNN(s, op) ==
    LET nn == LowByte(op)
    IN  {[s EXCEPT !.V[GetRegisterX(op)] = Byte(@ + nn)]}

Opcode8XY0(s, op) ==
    {[s EXCEPT !.V[GetRegisterX(op)] = s.V[GetRegisterY(op)]]}

Opcode8XY1(s, op) ==
    {[s EXCEPT !.V[GetRegisterX(op)] = BitOr(@, s.V[GetRegisterY(op)])]}

Opcode8XY2(s, op) ==
    {[s EXCEPT !.V[GetRegisterX(op)] = BitAnd(@, s.V[GetRegisterY(op)])]}

Opcode8XY3(s, op) ==
    {[s EXCEPT !.V[GetRegisterX(op)] = BitXor(@, s.V[GetRegisterY(op)])]}

\* An add that takes VX for both operands.
Opcode8XY4AddsX(s, op) ==
    LET V1 == [s.V EXCEPT ![15] = 0]
        xval == V1[GetRegisterX(op)]
        yval == V1[GetRegisterY(op)]
        V2 == IF yval > xval THEN [V1 EXCEPT ![15] = 1] ELSE V1
        V3 == [V2 EXCEPT ![GetRegisterX(op)] = Byte(@ + V2[GetRegisterX(op)])]
    IN  {[s EXCEPT !.V = V3]}

Opcode8XY4(s, op) ==
    LET V1 == [s.V EXCEPT ![15] = 0]
        xval == V1[GetRegisterX(op)]
        yval == V1[GetRegisterY(op)]
        V2 == IF yval > xval THEN [V1 EXCEPT ![15] = 1] ELSE V1
        V3 == [V2 EXCEPT ![GetRegisterX(op)] = Byte(@ + V2[GetRegisterY(op)])]
    IN  {[s EXCEPT !.V = V3]}

Opcode8XY5(s, op) ==
    LET V1 == [s.V EXCEPT ![15] = 1]
        xval == V1[GetRegisterX(op)]
        yval == V1[GetRegisterY(op)]
        V2 == IF yval > xval THEN [V1 EXCEPT ![15] = 0] ELSE V1
        V3 == [V2 EXCEPT ![GetRegisterX(op)] = Byte(xval - yval)]
    IN  {[s EXCEPT !.V = V3]}

Opcode8XY6(s, op) ==
    LET yVal == s.V[GetRegisterY(op)]
        LSB == BitAnd(yVal, 1)
        V1 == [s.V EXCEPT ![15] = LSB]
        V2 == [V1 EXCEPT ![GetRegisterY(op)] = @ \div 2]
        V3 == [V2 EXCEPT ![GetRegisterX(op)] = V2[GetRegisterY(op)]]
    IN  {[s EXCEPT !.V = V3]}

Opcode8XY7(s, op) ==
    LET V1 == [s.V EXCEPT ![15] = 1]
        xval == V1[GetRegisterX(op)]
        yval == V1[GetRegisterY(op)]
        V2 == IF yval > xval THEN [V1 EXCEPT ![15] = 0] ELSE V1
        V3 == [V2 EXCEPT ![GetRegisterX(op)] = Byte(@ - V2[GetRegisterY(op)])]
    IN  {[s EXCEPT !.V = V3]}

Opcode8XYE(s, op) ==
    LET V1 == [s.V EXCEPT ![15] = s.V[GetRegisterX(op)] \div 128]
        V2 == [V1 EXCEPT ![GetRegisterX(op)] = Byte(@ * 2)]
    IN  {[s EXCEPT !.V = V2]}

Opcode9XY0(s, op) ==
    {IF s.V[GetRegisterX(op)] # s.V[GetRegisterY(op)]
     THEN [s EXCEPT !.PC = Word(s.PC + 2)] ELSE s}

OpcodeANNN(s, op) ==
    LET nnn == Low12(op)
    IN  {[s EXCEPT !.I = nnn]}

OpcodeBNNN(s, op) ==
    LET nnn == Low12(op)
    IN  {[s EXCEPT !.PC = Word(nnn + s.V[0])]}

OpcodeCXNN(s, op) ==
    LET nn == LowByte(op)
    IN  {[s EXCEPT !.V[GetRegisterX(op)] = BitAnd(r, nn)] : r \in RandVals}

-----------------------------------------------------------------------------
(* The draw instruction.  m_ScreenData[x][y] is the byte at offset         *)
(* x * SCREEN_HEIGHT + y of the array; an index pair outside [64][32] is   *)
(* undefined behaviour: it traps, or it touches that offset (another pixel *)
(* while the offset is inside the array, foreign storage beyond it).       *)

\* The byte the handler reads at address a (g when a is outside the array).
ReadByte(s, a, g) == IF InMemory(a) THEN MemRead(s.mem, a) ELSE g

\* The <<x, y>> index pairs OpcodeDXYN uses, in the order of its two loops.
SpritePixels(s, op, g) ==
    LET height == LowNibble(op)
        coordx == s.V[GetRegisterX(op)]
        coordy == s.V[GetRegisterY(op)]
        all == [k \in 1..(height * 8) |->
                   LET yline == (k - 1) \div 8
                       xpixel == (k - 1) % 8
                       xpixelinv == 7 - xpixel
                       data == ReadByte(s, s.I + yline, g)
                   IN  <<coordx + xpixel, coordy + yline, Bit(data, xpixelinv)>>]
        IsSet(p) == p[3] = 1
        set == SelectSeq(all, IsSet)
    IN  [k \in 1..Len(set) |-> <<set[k][1], set[k][2]>>]

OnScreen(p) == p[1] < SCREEN_WIDTH /\ p[2] < SCREEN_HEIGHT
Offset(p) == p[1] * SCREEN_HEIGHT + p[2]
InScreenArray(p) == Offset(p) < SCREEN_WIDTH * SCREEN_HEIGHT
PixelAt(p) == <<Offset(p) \div SCREEN_HEIGHT, Offset(p) % SCREEN_HEIGHT>>

\* The inner loop body for the pixels from the k-th on.
RECURSIVE Blit(_, _, _, _)
Blit(s, pixels, k, g) ==
    IF k > Len(pixels) THEN s
    ELSE LET p == pixels[k]
             q == PixelAt(p)
             lit == IF InScreenArray(p) THEN q \in s.screen ELSE g = 1
             s1 == IF lit THEN [s EXCEPT !.V[15] = 1] ELSE s
             s2 == IF ~InScreenArray(p) THEN s1
                   ELSE IF q \in s1.screen
                        THEN [s1 EXCEPT !.screen = @ \ {q}]
                        ELSE [s1 EXCEPT !.screen = @ \cup {q}]
         IN  Blit(s2, pixels, k + 1, g)

OpcodeDXYN(s, op) ==
    LET height == LowNibble(op)
        s0 == [s EXCEPT !.V[15] = 0]
        memBad == \E yline \in 0..(height - 1) : ~InMemory(s.I + yline)
        Outcome(g) ==
            LET pixels == SpritePixels(s, op, g)
                scrBad == \E k \in 1..Len(pixels) : ~OnScreen(pixels[k])
                s1 == IF memBad THEN Flag(s0, "memory_oob") ELSE s0
                s2 == IF scrBad THEN Flag(s1, "screen_oob") ELSE s1
                done == Blit(s2, pixels, 1, g)
            IN  IF memBad \/ scrBad THEN {done, Crash(s2)} ELSE {done}
    IN  UNION {Outcome(g) : g \in GarbageBytes}

-----------------------------------------------------------------------------
(* Keys, timers and the index register.                                    *)

OpcodeEX9E(s, op) ==
    {IF s.V[GetRegisterX(op)] = s.K[GetRegisterX(op)]
     THEN [s EXCEPT !.PC = Word(s.PC + 2)] ELSE s}

OpcodeEXA1(s, op) ==
    {IF s.V[GetRegisterX(op)] # s.K[GetRegisterX(op)]
     THEN [s EXCEPT !.PC = Word(s.PC + 2)] ELSE s}

OpcodeFX07(s, op) == {[s EXCEPT !.V[GetRegisterX(op)] = s.DT]}

OpcodeFX15(s, op) == {[s EXCEPT !.DT = s.V[GetRegisterX(op)]]}

OpcodeFX18(s, op) == {[s EXCEPT !.ST = s.V[GetRegisterX(op)]]}

OpcodeFX1E(s, op) == {[s EXCEPT !.I = Word(@ + s.V[GetRegisterX(op)])]}

\* The loop over all 16 keys stores every pressed index in turn: the
\* highest pressed index is what stays in VX.
RECURSIVE ScanKeys(_, _, _)
ScanKeys(s, op, i) ==
    IF i >= 16 THEN s
    ELSE ScanKeys(IF s.K[i] # 0 THEN [s EXCEPT !.V[GetRegisterX(op)] = i] ELSE s,
                  op, i + 1)

OpcodeFX0A(s, op) == {ScanKeys(s, op, 0)}

\* *m_ScreenData[regx] is m_ScreenData[regx][0]; rows 64.. lie outside it.
OpcodeFX29(s, op) ==
    LET regx == s.V[GetRegisterX(op)]
    IN  IF regx < SCREEN_WIDTH
        THEN {[s EXCEPT !.I = IF <<regx, 0>> \in s.screen THEN 1 ELSE 0]}
        ELSE {Crash(Flag(s, "screen_oob"))}
             \cup {[Flag(s, "screen_oob") EXCEPT !.I = g] : g \in GarbageBytes}

\* Stores bytes[1..n] at a, a+1, ...; a store outside the array is undefined
\* (it traps, or lands in foreign storage).
RECURSIVE StoreBytes(_, _, _, _)
StoreBytes(mem, a, bytes, k) ==
    IF k > Len(bytes) THEN mem
    ELSE StoreBytes(IF InMemory(a + k - 1) THEN MemWrite(mem, a + k - 1, bytes[k])
                    ELSE mem,
                    a, bytes, k + 1)

OpcodeFX33(s, op) ==
    LET value == s.V[GetRegisterX(op)]
        hundreds == value \div 100
        tens == (value \div 10) % 10
        units == value % 10
        bad == \E k \in 0..2 : ~InMemory(s.I + k)
        s1 == IF bad THEN Flag(s, "memory_oob") ELSE s
        done == [s1 EXCEPT !.mem = StoreBytes(@, s.I, <<hundreds, tens, units>>, 1)]
    IN  IF bad THEN {done, Crash(s1)} ELSE {done}

OpcodeFX55(s, op) ==
    LET regx == GetRegisterX(op)
        bad == \E i \in 0..regx : ~InMemory(s.I + i)
        s1 == IF bad THEN Flag(s, "memory_oob") ELSE s
        done == [s1 EXCEPT
                   !.mem = StoreBytes(@, s.I, [i \in 1..(regx + 1) |-> s.V[i - 1]], 1),
                   !.I = Word(s.I + regx + 1)]
    IN  IF bad THEN {done, Crash(s1)} ELSE {done}

OpcodeFX65(s, op) ==
    LET xval == GetRegisterX(op)
        bad == \E i \in 0..xval : ~InMemory(s.I + i)
        s1 == IF bad THEN Flag(s, "memory_oob") ELSE s
        Outcome(g) ==
            [s1 EXCEPT
               !.V = [i \in 0..15 |->
                        IF i <= xval THEN ReadByte(s, s.I + i, g) ELSE s.V[i]],
               !.I = Word(s.I + xval + 1)]
    IN  IF bad THEN {Crash(s1)} \cup {Outcome(g) : g \in GarbageBytes}
        ELSE {Outcome(0)}

-----------------------------------------------------------------------------
(* Decode, dispatch and the timers.                                        *)

\* The two nested switches of DecodeOpcodeCycle.
Dispatch(s, op) ==
    LET fam == Family(op) \div 4096
        n == LowNibble(op)
        nn == LowByte(op)
    IN  CASE fam = 0 ->
               (CASE n = 0 -> Opcode00E0(s, op)
                  [] n = 14 -> Opcode00EE(s, op)
                  [] OTHER -> {s})
          [] fam = 1 -> Opcode1NNN(s, op)
          [] fam = 2 -> Opcode2NNN(s, op)
          [] fam = 3 -> Opcode3XNN(s, op)
          [] fam = 4 -> Opcode4XNN(s, op)
          [] fam = 5 -> Opcode5XY0(s, op)
          [] fam = 6 -> Opcode6XNN(s, op)
          [] fam = 7 -> Opcode7XNN(s, op)
          [] fam = 8 ->
               (CASE n = 0 -> Opcode8XY0(s, op)
                  [] n = 1 -> Opcode8XY1(s, op)
                  [] n = 2 -> Opcode8XY2(s, op)
                  [] n = 3 -> Opcode8XY3(s, op)
                  [] n = 4 -> Opcode8XY4(s, op)
                  [] n = 5 -> Opcode8XY5(s, op)
                  [] n = 6 -> Opcode8XY6(s, op)
                  [] n = 7 -> Opcode8XY7(s, op)
                  [] n = 14 -> Opcode8XYE(s, op)
                  [] OTHER -> {s})
          [] fam = 9 -> Opcode9XY0(s, op)
          [] fam = 10 -> OpcodeANNN(s, op)
          [] fam = 11 -> OpcodeBNNN(s, op)
          [] fam = 12 -> OpcodeCXNN(s, op)
          [] fam = 13 -> OpcodeDXYN(s, op)
          [] fam = 14 ->
               (CASE nn = \h9E -> OpcodeEX9E(s, op)
                  [] nn = \hA1 -> OpcodeEXA1(s, op)
                  [] OTHER -> {s})
          [] fam = 15 ->
               (CASE nn = \h07 -> OpcodeFX07(s, op)
                  [] nn = \h0A -> OpcodeFX0A(s, op)
                  [] nn = \h15 -> OpcodeFX15(s, op)
                  [] nn = \h18 -> OpcodeFX18(s, op)
                  [] nn = \h1E -> OpcodeFX1E(s, op)
                  [] nn = \h29 -> OpcodeFX29(s, op)
                  [] nn = \h33 -> OpcodeFX33(s, op)
                  [] nn = \h55 -> OpcodeFX55(s, op)
                  [] nn = \h65 -> OpcodeFX65(s, op)
                  [] OTHER -> {s})

\* The tail of DecodeOpcodeCycle: both timers count down on every call.
DecrementTimers(s) ==
    LET s1 == IF s.DT > 0 THEN [s EXCEPT !.DT = @ - 1] ELSE s
    IN  IF s1.ST > 0 THEN [s1 EXCEPT !.ST = @ - 1] ELSE s1

DecodeOpcodeCycle(s, op) ==
    {IF t.crashed THEN t ELSE DecrementTimers(t) : t \in Dispatch(s, op)}

-----------------------------------------------------------------------------
(* Reset, ROM load and fetch.                                              *)

\* The font bytes CPUReset stores: glyph i, row j goes to i * numOfSprites + j.
FontImage ==
    [a \in {i * numOfSprites + j : i \in 0..(numOfSprites - 1),
                                   j \in 0..(numOfPixels - 1)} |->
        m_FontData[(a \div numOfSprites) + 1][(a % numOfSprites) + 1]]

\* CPUReset touches I, PC, the registers, the keyboard and memory only.
CPUReset(s) ==
    [s EXCEPT !.I = 0,
              !.PC = PROGRAM_START,
              !.V = [i \in 0..15 |-> 0],
              !.K = [i \in 0..15 |-> 0],
              !.mem = FontImage]

\* A fit test that lets one byte too many through.
RomFitsOffByOne(bytes) == ((MEMORY_SIZE + 1) - PROGRAM_START) >= Len(bytes)

\* The file fits when ((0xFFF + 1) - 0x200) > bufferSize.
RomFits(bytes) == ((MEMORY_SIZE + 1) - PROGRAM_START) > Len(bytes)

\* Memory after LoadCH8ROM has copied bytes to 0x200, 0x201, ...
LoadImage(mem, bytes) ==
    LET target == {PROGRAM_START + i : i \in 0..(Len(bytes) - 1)}
        nonzero == {a \in target : bytes[a - PROGRAM_START + 1] # 0}
    IN  [a \in ((DOMAIN mem) \ target) \cup nonzero |->
            IF a \in target THEN bytes[a - PROGRAM_START + 1] ELSE mem[a]]

\* GetNextOpcode's result for the bytes hi, lo read at PC and PC + 1.
FetchWord(hi, lo) == BitOr(Word(hi * 256), lo)

-----------------------------------------------------------------------------
(* The ROM files explored.  A program is a sequence of opcode words; the   *)
(* file holds each word high byte first.                                   *)

WordsToBytes(ws) ==
    [i \in 1..(2 * Len(ws)) |->
        IF i % 2 = 1 THEN ws[(i + 1) \div 2] \div 256 ELSE ws[i \div 2] % 256]

CLS == Op(0, 0, 14, 0)
RET == Op(0, 0, 14, 14)

\* Operand values and register pairs for the two-register instructions.
Vals == {0, 5, 10, 250, 255}
FewVals == {<<5, 5>>, <<5, 10>>}
RegPairs == {<<0, 1>>, <<2, 2>>, <<3, 15>>, <<15, 3>>}

\* VX := a; VY := b; then the instruction h X Y n.
TwoRegProgram(h, n, r, a, b) ==
    <<CLS, Op(6, r[1], 0, 0) + a, Op(6, r[2], 0, 0) + b, Op(h, r[1], r[2], n)>>

ArithPrograms ==
    {TwoRegProgram(8, n, r, a, b) :
        n \in {4, 5, 6, 7, 14}, r \in RegPairs, a \in Vals, b \in Vals}

OtherTwoRegPrograms ==
    {TwoRegProgram(hn[1], hn[2], r, ab[1], ab[2]) :
        hn \in {<<8, 0>>, <<8, 1>>, <<8, 2>>, <<8, 3>>, <<8, 8>>, <<8, 15>>,
                <<5, 0>>, <<5, 1>>, <<5, 15>>, <<9, 0>>, <<9, 1>>},
        r \in RegPairs, ab \in FewVals}

\* Words no handler is written for, run after glyph 0 was drawn at (0, 0).
UndefinedWords ==
    {Op(0, 0, 0, 0), Op(0, 0, 1, 0), Op(0, 0, 15, 14), Op(0, 1, 2, 3),
     Op(5, 15, 15, 15), Op(8, 0, 1, 9), Op(14, 0, 0, 0), Op(14, 1, 9, 15),
     Op(15, 0, 15, 15), Op(15, 2, 0, 0)}

UndefinedPrograms ==
    {<<CLS, Op(10, 0, 0, 0), Op(13, 0, 0, 5), w, Op(6, 7, 0, 1)>> :
        w \in UndefinedWords}

\* 6005 600A 8014.
ScenarioProgram == <<Op(6, 0, 0, 5), Op(6, 0, 0, 10), Op(8, 0, 1, 4)>>

\* Wait for a key into V3, then V4 := 7.
KeyWaitProgram == <<CLS, Op(15, 3, 0, 10), Op(6, 4, 0, 7), Op(1, 2, 0, 6)>>

\* V0 := 120; delay := V0; sound := V0; V1 := 1; V1 := 2; V2 := delay.
TimerProgram ==
    <<CLS, Op(6, 0, 7, 8), Op(15, 0, 1, 5), Op(15, 0, 1, 8), Op(6, 1, 0, 1),
      Op(6, 1, 0, 2), Op(15, 2, 0, 7)>>

\* 0x202: call 0x202.
RecursionProgram == <<CLS, Op(2, 2, 0, 2)>>

\* A return with nothing on the stack.
ReturnProgram == <<CLS, RET, Op(6, 5, 0, 1)>>

\* 0x202: call 0x208; 0x204: jump 0x204; 0x208: VA := 1; 0x20A: return.
CallReturnProgram ==
    <<CLS, Op(2, 2, 0, 8), Op(1, 2, 0, 4), CLS, Op(6, 10, 0, 1), RET>>

\* 0x202: call 0x206; 0x204: return; 0x206: return (to 0x204).
DoubleReturnProgram == <<CLS, Op(2, 2, 0, 6), RET, RET>>

\* 0x202: jump 0xFFE, the last word that starts inside the array.
JumpToEndProgram == <<CLS, Op(1, 15, 15, 14)>>

\* One of each remaining instruction: VA := 10; VA += 251; skip if VA = 5;
\* (skipped); skip if VA # 5; I := 0x300; BCD of VA; store V0..V2; load
\* V0..V2; I += VA; I := glyph of VA; VB := rand & 0x0F; draw 2 rows at
\* (V1, V2); VC := delay; skip if key VA; skip if not key VA; (clear);
\* jump 0x226 + V0; 0x226: jump 0x226.
TourProgram ==
    <<CLS, Op(6, 10, 0, 10), Op(7, 10, 15, 11), Op(3, 10, 0, 5), RET,
      Op(4, 10, 0, 5), Op(10, 3, 0, 0), Op(15, 10, 3, 3), Op(15, 2, 5, 5),
      Op(15, 2, 6, 5), Op(15, 10, 1, 14), Op(15, 10, 2, 9), Op(12, 11, 0, 15),
      Op(13, 1, 2, 2), Op(15, 12, 0, 7), Op(14, 10, 9, 14), Op(14, 10, 10, 1),
      CLS, Op(11, 2, 2, 6), Op(1, 2, 2, 6)>>

\* V0 := x; V1 := y; I := 0 (glyph 0); draw its 5 rows at (V0, V1), twice.
DrawCoords == {<<0, 0>>, <<10, 20>>, <<60, 28>>, <<62, 31>>, <<250, 5>>}

DrawProgram(c) ==
    <<CLS, Op(6, 0, 0, 0) + c[1], Op(6, 1, 0, 0) + c[2], Op(10, 0, 0, 0),
      Op(13, 0, 1, 5), Op(13, 0, 1, 5)>>

DrawPrograms == {DrawProgram(c) : c \in DrawCoords}

\* Glyph 0 drawn at (0, 0); VA := d; I := glyph address of VA.
FontDigits == {0, 2, 5, 15}

FontLookupProgram(d) ==
    <<CLS, Op(10, 0, 0, 0), Op(13, 0, 0, 5), Op(6, 10, 0, 0) + d,
      Op(15, 10, 2, 9)>>

FontLookupPrograms == {FontLookupProgram(d) : d \in FontDigits}

\* V0..V3 := 0x11, 0x22, 0x33, 0x44; I := a; store V0..Vx; I := a; load
\* V0..Vx.  0x200 lies inside the ROM image, 0x300 beyond it.
BlockAddresses == {Op(0, 2, 0, 0), Op(0, 3, 0, 0)}
BlockCounts == {0, 3, 15}

BlockProgram(a, x) ==
    <<CLS, Op(6, 0, 1, 1), Op(6, 1, 2, 2), Op(6, 2, 3, 3), Op(6, 3, 4, 4),
      Op(10, 0, 0, 0) + a, Op(15, x, 5, 5), Op(10, 0, 0, 0) + a,
      Op(15, x, 6, 5)>>

BlockPrograms == {BlockProgram(a, x) : a \in BlockAddresses, x \in BlockCounts}

\* VA := 10; skip if key VA; VB := 1; skip if not key VA; VC := 1; V0 := 0;
\* skip if key V0; VD := 1; 0x212: jump 0x212.
KeySkipProgram ==
    <<CLS, Op(6, 10, 0, 10), Op(14, 10, 9, 14), Op(6, 11, 0, 1),
      Op(14, 10, 10, 1), Op(6, 12, 0, 1), Op(6, 0, 0, 0), Op(14, 0, 9, 14),
      Op(6, 13, 0, 1), Op(1, 2, 1, 2)>>

\* 0x202: jump 0x205.
OddJumpProgram == <<CLS, Op(1, 2, 0, 5)>>

\* Accesses through I at the end of m_GameMemory, whose last byte is at
\* 0xFFE: draw 2 rows from 0xFFE; BCD of V0 at 0xFFD; store and load V0, V1
\* at 0xFFE.
MemEdgePrograms ==
    {<<CLS, Op(10, 15, 15, 14), Op(13, 0, 0, 2)>>,
     <<CLS, Op(6, 0, 7, 11), Op(10, 15, 15, 13), Op(15, 0, 3, 3)>>,
     <<CLS, Op(6, 0, 1, 1), Op(10, 15, 15, 14), Op(15, 1, 5, 5)>>,
     <<CLS, Op(10, 15, 15, 14), Op(15, 1, 6, 5)>>}

\* Stores through I = 0, where the font lies: BCD of V0 = 123; V0, V1.
LowMemoryPrograms ==
    {<<CLS, Op(6, 0, 7, 11), Op(10, 0, 0, 0), Op(15, 0, 3, 3)>>,
     <<CLS, Op(6, 0, 1, 1), Op(6, 1, 2, 2), Op(10, 0, 0, 0), Op(15, 1, 5, 5)>>}

\* 0x202: call 0x208; 0x204: jump 0x204; 0x208: call 0x20C; 0x20A: return;
\* 0x20C: VA := 1; 0x20E: return.
NestedCallProgram ==
    <<CLS, Op(2, 2, 0, 8), Op(1, 2, 0, 4), CLS, Op(2, 2, 0, 12), RET,
      Op(6, 10, 0, 1), RET>>

Programs ==
    ArithPrograms \cup OtherTwoRegPrograms \cup UndefinedPrograms
    \cup DrawPrograms \cup FontLookupPrograms \cup BlockPrograms
    \cup {ScenarioProgram, KeyWaitProgram, TimerProgram, RecursionProgram,
          ReturnProgram, CallReturnProgram, DoubleReturnProgram,
          JumpToEndProgram, TourProgram, KeySkipProgram, OddJumpProgram,
          NestedCallProgram}
    \cup MemEdgePrograms \cup LowMemoryPrograms

\* bytes, then zeros up to n bytes.
Padded(bytes, n) == [i \in 1..n |-> IF i <= Len(bytes) THEN bytes[i] ELSE 0]

\* Files of the largest size that fits after 0x200, and of the sizes next
\* to it.
EdgeSizes == {(MEMORY_SIZE - PROGRAM_START) + d : d \in {-1, 0, 1, 2}}

EdgeRoms == {Padded(WordsToBytes(<<CLS, Op(6, 0, 0, 5)>>), n) : n \in EdgeSizes}

RomFiles ==
    {[exists |-> TRUE, bytes |-> WordsToBytes(p)] : p \in Programs}
    \cup {[exists |-> TRUE, bytes |-> b] : b \in EdgeRoms}
    \cup {[exists |-> FALSE, bytes |-> <<>>]}

-----------------------------------------------------------------------------
(* The SDL event loop of main().                                           *)

\* Keys the host presses and releases in the runs explored.
PollKeys == {1, 10}

Events ==
    {[type |-> "quit", sym |-> 0]}
    \cup {[type |-> ty, sym |-> k] : ty \in {"keydown", "keyup"}, k \in PollKeys}

RECURSIVE EventSeqs(_)
EventSeqs(n) ==
    IF n = 0 THEN {<<>>}
    ELSE EventSeqs(n - 1)
         \cup {Append(q, e) : q \in {r \in EventSeqs(n - 1) : Len(r) = n - 1},
                              e \in Events}

\* One turn of the while (SDL_PollEvent(&event) != 0) loop.
HandleEvent(st, e) ==
    CASE e.type = "quit" -> [st EXCEPT !.exit = TRUE]
      [] e.type = "keydown" -> [st EXCEPT !.K[e.sym] = 1]
      [] e.type = "keyup" -> [st EXCEPT !.K[e.sym] = 0]
      [] OTHER -> st

RECURSIVE HandleEvents(_, _, _)
HandleEvents(st, q, k) ==
    IF k > Len(q) THEN st ELSE HandleEvents(HandleEvent(st, q[k]), q, k + 1)

NoKeyPressed(K) == \A i \in 0..15 : K[i] = 0

IsFX0A(op) == Family(op) = \hF000 /\ LowByte(op) = \h0A

-----------------------------------------------------------------------------
(* The main loop.  phase names the statement of main() that runs next.     *)

Init ==
    /\ rom \in RomFiles
    /\ m_GameMemory = << >>
    /\ m_Registers = [i \in 0..15 |-> 0]
    /\ m_Keyboard = [i \in 0..15 |-> 0]
    /\ m_AddressI = 0
    /\ m_PC = 0
    /\ m_Stack = << >>
    /\ delayTimer = 0
    /\ soundTimer = 0
    /\ m_ScreenData = {}
    /\ undef = {}
    /\ opcode = 0
    /\ isLoaded = FALSE
    /\ exit = FALSE
    /\ phase = "reset"
    /\ cycles = 0
    /\ awaitingKey = FALSE

\* Writes a machine record back to the globals.
Store(t) ==
    /\ m_GameMemory' = t.mem
    /\ m_Registers' = t.V
    /\ m_Keyboard' = t.K
    /\ m_AddressI' = t.I
    /\ m_PC' = t.PC
    /\ m_Stack' = t.stack
    /\ delayTimer' = t.DT
    /\ soundTimer' = t.ST
    /\ m_ScreenData' = t.screen
    /\ undef' = t.undef

\* main(): CPUReset();
Reset ==
    /\ phase = "reset"
    /\ Store(CPUReset(Machine))
    /\ phase' = "fetch"
    /\ UNCHANGED <<rom, opcode, isLoaded, exit, cycles, awaitingKey>>

\* main(): WORD opcode = GetNextOpcode();
GetNextOpcode ==
    /\ phase = "fetch"
    /\ cycles < MaxCycles
    /\ cycles' = cycles + 1
    /\ IF InMemory(m_PC) /\ InMemory(m_PC + 1)
       THEN /\ opcode' = FetchWord(MemRead(m_GameMemory, m_PC),
                                   MemRead(m_GameMemory, m_PC + 1))
            /\ m_PC' = Word(m_PC + 2)
            /\ phase' = "load"
            /\ undef' = undef
       ELSE /\ undef' = undef \cup {"memory_oob"}
            /\ \/ /\ phase' = "crashed"
                  /\ UNCHANGED <<opcode, m_PC>>
               \/ /\ \E g \in GarbageBytes :
                        opcode' = FetchWord(ReadByte(Machine, m_PC, g),
                                            ReadByte(Machine, m_PC + 1, g))
                  /\ m_PC' = Word(m_PC + 2)
                  /\ phase' = "load"
    /\ UNCHANGED <<m_GameMemory, m_Registers, m_Keyboard, m_AddressI, m_Stack,
                   delayTimer, soundTimer, m_ScreenData, rom, isLoaded, exit,
                   awaitingKey>>

\* main(): bool isLoaded = LoadCH8ROM(path.c_str()); and the if on it.
LoadCH8ROM ==
    /\ phase = "load"
    /\ IF rom.exists /\ RomFits(rom.bytes)
       THEN /\ m_GameMemory' = LoadImage(m_GameMemory, rom.bytes)
            /\ isLoaded' = TRUE
            /\ exit' = exit
            /\ phase' = "decode"
       ELSE /\ m_GameMemory' = m_GameMemory
            /\ isLoaded' = FALSE
            /\ exit' = TRUE
            /\ phase' = "poll"
    /\ UNCHANGED <<m_Registers, m_Keyboard, m_AddressI, m_PC, m_Stack,
                   delayTimer, soundTimer, m_ScreenData, undef, rom, opcode,
                   cycles, awaitingKey>>

\* main(): DecodeOpcodeCycle(opcode);
Decode ==
    /\ phase = "decode"
    /\ \E t \in DecodeOpcodeCycle(Machine, opcode) :
          /\ Store(t)
          /\ phase' = IF t.crashed THEN "crashed" ELSE "poll"
    /\ awaitingKey' = IF IsFX0A(opcode) THEN NoKeyPressed(m_Keyboard)
                      ELSE awaitingKey
    /\ UNCHANGED <<rom, opcode, isLoaded, exit, cycles>>

\* main(): while (SDL_PollEvent(&event) != 0) { ... }
PollEvents ==
    /\ phase = "poll"
    /\ \E q \in EventSeqs(MaxEvents) :
          LET st == HandleEvents([K |-> m_Keyboard, exit |-> exit], q, 1)
          IN  /\ m_Keyboard' = st.K
              /\ exit' = st.exit
              /\ awaitingKey' = (awaitingKey /\ NoKeyPressed(st.K))
    /\ phase' = "draw"
    /\ UNCHANGED <<m_GameMemory, m_Registers, m_AddressI, m_PC, m_Stack,
                   delayTimer, soundTimer, m_ScreenData, undef, rom, opcode,
                   isLoaded, cycles>>

\* The register file after DrawPixels has walked the screen.
DrawPixelsRegisters(V, screen) ==
    IF screen # {} THEN [V EXCEPT ![15] = 1] ELSE V

\* main(): DrawPixels(renderer, gameScreen); then the loop test.
DrawPixels ==
    /\ phase = "draw"
    /\ m_Registers' = DrawPixelsRegisters(m_Registers, m_ScreenData)
    /\ phase' = IF exit THEN "done" ELSE "fetch"
    /\ UNCHANGED <<m_GameMemory, m_Keyboard, m_AddressI, m_PC, m_Stack,
                   delayTimer, soundTimer, m_ScreenData, undef, rom, opcode,
                   isLoaded, exit, cycles, awaitingKey>>

Next ==
    \/ Reset
    \/ GetNextOpcode
    \/ LoadCH8ROM
    \/ Decode
    \/ PollEvents
    \/ DrawPixels

Spec == Init /\ [][Next]_vars

-----------------------------------------------------------------------------
(* Properties.  A step of Decode starts in a state with phase = "decode",  *)
(* where opcode is the word just fetched and m_PC is already past it; the  *)
(* unprimed registers are the operands, the primed ones the results.       *)

OpX == GetRegisterX(opcode)
OpY == GetRegisterY(opcode)
VX == m_Registers[OpX]
VY == m_Registers[OpY]

\* The handler for 8XYn runs in this step and returns.
Executes8(n) ==
    /\ phase = "decode"
    /\ phase' = "poll"
    /\ Family(opcode) = \h8000
    /\ LowNibble(opcode) = n

\* C1: add-with-carry 8XY4, X # F: VX becomes (VX + VY) mod 256 and VF
\* becomes 1 exactly when the unsigned sum exceeds 255.
C1_AddWithCarry ==
    [][(Executes8(4) /\ OpX # 15) =>
          /\ m_Registers'[OpX] = (VX + VY) % 256
          /\ m_Registers'[15] = IF VX + VY > 255 THEN 1 ELSE 0]_vars

\* C2: subtract-with-borrow 8XY5, X # F: VX becomes (VX - VY) mod 256 and
\* VF becomes 0 exactly when VX < VY.
C2_SubtractXY ==
    [][(Executes8(5) /\ OpX # 15) =>
          /\ m_Registers'[OpX] = (VX - VY) % 256
          /\ m_Registers'[15] = IF VX < VY THEN 0 ELSE 1]_vars

\* C3: subtract-with-borrow 8XY7, X # F: VX becomes (VY - VX) mod 256 and
\* VF becomes 0 exactly when VY < VX.
C3_SubtractYX ==
    [][(Executes8(7) /\ OpX # 15) =>
          /\ m_Registers'[OpX] = (VY - VX) % 256
          /\ m_Registers'[15] = IF VY < VX THEN 0 ELSE 1]_vars

\* C4: shifts 8XY6 and 8XYE, X and Y distinct and not F: VX becomes the old
\* VY shifted by one bit, VF the bit of the old VY shifted out, and the left
\* shift leaves VY unchanged.
C4_Shifts ==
    [][(OpX # OpY /\ OpX # 15 /\ OpY # 15) =>
          /\ Executes8(6) =>
                /\ m_Registers'[OpX] = VY \div 2
                /\ m_Registers'[15] = VY % 2
          /\ Executes8(14) =>
                /\ m_Registers'[OpX] = (VY * 2) % 256
                /\ m_Registers'[15] = VY \div 128
                /\ m_Registers'[OpY] = VY]_vars

\* C5: key wait FX0A: once the instruction has run with no key pressed, and
\* for as long as none becomes pressed, PC stays where it is and no other
\* instruction is about to be executed.
C5_KeyWaitSuspends ==
    [][awaitingKey => (m_PC' = m_PC /\ phase' # "decode")]_vars

IsFX15(op) == Family(op) = \hF000 /\ LowByte(op) = \h15
IsFX18(op) == Family(op) = \hF000 /\ LowByte(op) = \h18

\* C6: executing an instruction never decrements a timer: across the
\* execution of any instruction the delay timer keeps its value (or takes
\* the value FX15 writes), and so does the sound timer (FX18).
C6_TimersNotPerInstruction ==
    [][phase = "decode" =>
          /\ delayTimer' = IF IsFX15(opcode) /\ phase' = "poll" THEN VX
                           ELSE delayTimer
          /\ soundTimer' = IF IsFX18(opcode) /\ phase' = "poll" THEN VX
                           ELSE soundTimer]_vars

\* C7: a word 5XYN with N # 0 leaves PC at the fetch increment (no skip),
\* whatever VX and VY hold, and execution goes on.
C7_Unknown5XYN ==
    [][(phase = "decode" /\ Family(opcode) = \h5000 /\ LowNibble(opcode) # 0) =>
          (m_PC' = m_PC /\ phase' = "poll")]_vars

\* The instruction set: the words some handler is written for.
IsDefinedInstruction(op) ==
    LET fam == Family(op) \div 4096
    IN  \/ op = \h00E0
        \/ op = \h00EE
        \/ fam \in {1, 2, 3, 4, 6, 7, 10, 11, 12, 13}
        \/ fam \in {5, 9} /\ LowNibble(op) = 0
        \/ fam = 8 /\ LowNibble(op) \in {0, 1, 2, 3, 4, 5, 6, 7, 14}
        \/ fam = 14 /\ LowByte(op) \in {\h9E, \hA1}
        \/ fam = 15 /\ LowByte(op) \in {\h07, \h0A, \h15, \h18, \h1E, \h29,
                                        \h33, \h55, \h65}

\* C8: a word that is no defined instruction changes nothing: registers,
\* index register, memory, call stack, framebuffer and PC (already past the
\* word) are the same after the cycle's execute step.
C8_UnknownIsNoOp ==
    [][(phase = "decode" /\ ~IsDefinedInstruction(opcode)) =>
          UNCHANGED <<m_Registers, m_AddressI, m_GameMemory, m_Stack,
                      m_ScreenData, m_PC>>]_vars

\* C9: a return 00EE with an empty call stack stops the interpreter (no
\* further instruction) without reading a return address from the stack.
C9_StackUnderflowFatal ==
    [][(phase = "decode" /\ opcode = \h00EE /\ m_Stack = << >>) =>
          /\ phase' # "poll"
          /\ m_PC' = m_PC
          /\ "stack_underflow" \notin undef']_vars

\* C10: the call stack never holds more than 16 return addresses; a call
\* 2NNN with 16 entries on the stack pushes nothing and stops the
\* interpreter.
C10_BoundedStack ==
    [][/\ Len(m_Stack') <= 16
       /\ (phase = "decode" /\ Family(opcode) = \h2000 /\ Len(m_Stack) = 16) =>
             (m_Stack' = m_Stack /\ phase' # "poll")]_vars

\* The word about to be executed is a draw DXYN.
IsDXYN(op) == Family(op) = \hD000

\* C11: every index pair <<x, y>> a draw DXYN reads or toggles in the
\* framebuffer has x in 0..63 and y in 0..31, whatever VX, VY, N and the
\* sprite are.
C11_DrawInsideFramebuffer ==
    (phase = "decode" /\ IsDXYN(opcode)) =>
        \A g \in GarbageBytes :
            LET pixels == SpritePixels(Machine, opcode, g)
            IN  \A k \in 1..Len(pixels) : OnScreen(pixels[k])

\* The ROM is the one that draws glyph 0 twice at c, and the second of the
\* two draws is about to be executed.
SecondDrawAt(c) ==
    /\ rom.bytes = WordsToBytes(DrawProgram(c))
    /\ phase = "decode"
    /\ IsDXYN(opcode)
    /\ m_PC = PROGRAM_START + 12

\* C12: after any draw VF is 1 exactly when some pixel went from on to off,
\* and the second of two draws of the same sprite at the same in-frame
\* coordinates leaves VF = 1 and the framebuffer as it was before the first
\* (here: all off).
C12_DrawCollision ==
    [][/\ (phase = "decode" /\ IsDXYN(opcode)) =>
             /\ phase' = "poll"
             /\ m_Registers'[15] =
                   IF \E p \in m_ScreenData : p \notin m_ScreenData'
                   THEN 1 ELSE 0
       /\ \A c \in DrawCoords :
             (SecondDrawAt(c) /\ OnScreen(c)) =>
                 (m_Registers'[15] = 1 /\ m_ScreenData' = {})]_vars

IsFX29(op) == Family(op) = \hF000 /\ LowByte(op) = \h29

\* C13: font lookup FX29 with a digit 0..15 in VX leaves I at the font base
\* (address 0, where the font is stored from) plus 5 times the digit.
C13_FontAddress ==
    [][(phase = "decode" /\ IsFX29(opcode) /\ VX <= 15) =>
          m_AddressI' = VX * numOfPixels]_vars

IsFX55(op) == Family(op) = \hF000 /\ LowByte(op) = \h55
IsFX65(op) == Family(op) = \hF000 /\ LowByte(op) = \h65

\* The ROM stores V0..VX at an address and loads them back from it, with
\* no register written in between.
IsBlockRom == rom.bytes \in {WordsToBytes(p) : p \in BlockPrograms}

\* C14: block store FX55 and block load FX65 each leave I at its old value
\* plus X + 1, and a block load from the address the registers V0..VX were
\* just stored at gives every one of them the value it had.
C14_BlockRoundTrip ==
    [][/\ (phase = "decode" /\ (IsFX55(opcode) \/ IsFX65(opcode))) =>
             m_AddressI' = m_AddressI + OpX + 1
       /\ (phase = "decode" /\ IsFX65(opcode) /\ IsBlockRom) =>
             \A i \in 0..OpX : m_Registers'[i] = m_Registers[i]]_vars

IsEX9E(op) == Family(op) = \hE000 /\ LowByte(op) = \h9E
IsEXA1(op) == Family(op) = \hE000 /\ LowByte(op) = \hA1

\* C15: with a key index 0..15 in VX, EX9E skips (PC + 2) exactly when the
\* key with that index is pressed, and EXA1 exactly when it is not.
C15_KeySkips ==
    [][/\ (phase = "decode" /\ IsEX9E(opcode) /\ VX <= 15) =>
             m_PC' = m_PC + (IF m_Keyboard[VX] # 0 THEN 2 ELSE 0)
       /\ (phase = "decode" /\ IsEXA1(opcode) /\ VX <= 15) =>
             m_PC' = m_PC + (IF m_Keyboard[VX] = 0 THEN 2 ELSE 0)]_vars

\* The largest file that fits between 0x200 and the end of m_GameMemory.
RoomForRom == MEMORY_SIZE - PROGRAM_START

\* C16: a load succeeds exactly when the file (exists and) fits between
\* 0x200 and the end of memory, and a load that fails leaves memory, PC, the
\* registers, I, the stack, the timers, the keys and the framebuffer as they
\* were.
C16_LoadFitsOrUnchanged ==
    [][phase = "load" =>
          /\ isLoaded' = (rom.exists /\ Len(rom.bytes) <= RoomForRom)
          /\ ~isLoaded' =>
                UNCHANGED <<m_GameMemory, m_PC, m_Registers, m_AddressI,
                            m_Stack, delayTimer, soundTimer, m_Keyboard,
                            m_ScreenData>>]_vars

\* A file one byte too large was refused and the loop is on its way out.
C16_Witness ==
    /\ rom.exists
    /\ Len(rom.bytes) = RoomForRom + 1
    /\ phase = "poll"
    /\ ~isLoaded
    /\ exit

\* C17: no word is fetched before a load has succeeded, and once the
\* program is loaded a later pass of the loop does not write the ROM into
\* memory again.
C17_LoadOnceBeforeFetch ==
    [][/\ phase = "fetch" => isLoaded
       /\ (phase = "load" /\ isLoaded) => m_GameMemory' = m_GameMemory]_vars

\* The ROM is 6005 600A 8014, PC is past its three words and the third has
\* been executed.
ScenarioDone ==
    /\ rom.bytes = WordsToBytes(ScenarioProgram)
    /\ m_PC = PROGRAM_START + 6
    /\ phase \in {"poll", "draw", "fetch", "done"}

\* C18 (as amended): after the ROM 6005 600A 8014 has run, V0 = 10 (600A
\* writes V0, V1 stays 0) and VF = 0.
C18_Scenario ==
    ScenarioDone => (m_Registers[0] = 10 /\ m_Registers[15] = 0)

\* C18 (as stated): after the ROM 6005 600A 8014 has run, V0 = 15 and
\* VF = 0.
C18_ScenarioAsStated ==
    ScenarioDone => (m_Registers[0] = 15 /\ m_Registers[15] = 0)

\* The scenario ROM has run and the loop is about to fetch the next word.
C18_Witness == ScenarioDone /\ phase = "fetch"

\* C19: in every reachable state a call of CPUReset would leave the
\* registers, I, the timers, the keys and the framebuffer at zero, the
\* stack empty, PC at 0x200 and memory holding the font only.
C19_ResetZeroesAll ==
    LET t == CPUReset(Machine)
    IN  /\ t.V = [i \in 0..15 |-> 0]
        /\ t.K = [i \in 0..15 |-> 0]
        /\ t.I = 0
        /\ t.PC = PROGRAM_START
        /\ t.mem = FontImage
        /\ t.DT = 0
        /\ t.ST = 0
        /\ t.stack = << >>
        /\ t.screen = {}

\* C20: PC is even in every reachable state.
C20_PCEven == m_PC % 2 = 0

\* C21: no fetch, draw, BCD store, block store or block load ever reads or
\* writes a byte outside m_GameMemory: an address beyond it stops the
\* interpreter before the access.
C21_MemoryBounds == "memory_oob" \notin undef

\* C22: right after reset the font lies at some base address below 0x200
\* with 5 bytes per glyph: the byte at base + 5 * d + j is row j of the
\* glyph of digit d.
C22_FontLayout ==
    (phase = "fetch" /\ cycles = 0) =>
        \E base \in 0..(PROGRAM_START - numOfSprites * numOfPixels) :
            \A d \in 0..(numOfSprites - 1), j \in 0..(numOfPixels - 1) :
                MemRead(m_GameMemory, base + d * numOfPixels + j)
                    = m_FontData[d + 1][j + 1]

\* C23: the render step DrawPixels changes no interpreter state: registers
\* (VF among them), I, PC, memory, stack, timers, keys and framebuffer are
\* the same after it as before.
C23_RenderReadOnly ==
    [][phase = "draw" =>
          UNCHANGED <<m_Registers, m_AddressI, m_PC, m_GameMemory, m_Stack,
                      delayTimer, soundTimer, m_Keyboard, m_ScreenData>>]_vars

\* C24: once reset has stored the font, no step changes a memory byte at
\* an address below 0x200.
C24_LowMemoryProtected ==
    [][phase # "reset" =>
          \A a \in 0..(PROGRAM_START - 1) :
              MemRead(m_GameMemory', a) = MemRead(m_GameMemory, a)]_vars

IsCall(op) == Family(op) = \h2000
IsReturn(op) == Family(op) = \h0000 /\ LowNibble(op) = 14

\* C25: a fetch at A leaves PC = A + 2; a call 2NNN pushes that PC and
\* jumps to NNN; a return 00EE with a non-empty stack pops the address
\* pushed last into PC, leaving the stack as it was before the matching
\* call.
C25_CallReturn ==
    [][/\ (phase = "fetch" /\ phase' = "load") => m_PC' = m_PC + 2
       /\ (phase = "decode" /\ IsCall(opcode)) =>
             /\ m_Stack' = Append(m_Stack, m_PC)
             /\ m_PC' = Low12(opcode)
       /\ (phase = "decode" /\ IsReturn(opcode) /\ m_Stack # << >>) =>
             /\ m_Stack = Append(m_Stack', m_PC')
             /\ phase' = "poll"]_vars

\* Both returns of the nested calls have run: execution is back at 0x204,
\* the word after the outer call, with the stack empty again.
C25_Witness ==
    /\ rom.bytes = WordsToBytes(NestedCallProgram)
    /\ phase = "poll"
    /\ IsReturn(opcode)
    /\ m_Stack = << >>
    /\ m_PC = PROGRAM_START + 4
    /\ undef = {}

=============================================================================
